---- MODULE Spec2Model ----
(***************************************************************************)
(* Model of src/onboarding_dashboard.py: the hard-coded report tables, the *)
(* eight chart builders that derive view data from the tables, and       *)
(* the pandas operations the builders use.                                 *)
(*                                                                         *)
(* Monetary ACV values (floats in $M in the source) are kept as exact      *)
(* decimals in thousandths of $M: 1.7 is 1700, 0.023 is 23.                *)
(* A DataFrame is [columns, index, rows]; a figure is the sequence of its  *)
(* traces.  Column 'Live Status' is written Live_Status.                   *)
(***************************************************************************)
EXTENDS Integers, Sequences, FiniteSets, TLC

VARIABLES kpi_data, segmentation_data, erp_data, cohort_data,
          distribution_data, acv_onboarding_data, non_live_data,
          at_risk_breakdown, figs, calls, source_rows, loaded, raised

tables == <<kpi_data, segmentation_data, erp_data, cohort_data,
            distribution_data, acv_onboarding_data, non_live_data,
            at_risk_breakdown>>

vars == <<kpi_data, segmentation_data, erp_data, cohort_data,
          distribution_data, acv_onboarding_data, non_live_data,
          at_risk_breakdown, figs, calls, source_rows, loaded, raised>>

(* Bounds of the model. *)
MaxCalls == 8

MaxRows == 3

-----------------------------------------------------------------------------
(* Generic helpers: Python/pandas primitives used by the builders.          *)

Digits == <<"0", "1", "2", "3", "4", "5", "6", "7", "8", "9">>

RECURSIVE Str(_)
(* str(n) / f"{n}" of a non-negative int *)
Str(n) == IF n < 10 THEN Digits[n + 1]
          ELSE Str(n \div 10) \o Digits[(n % 10) + 1]

(* repr of a float given in thousandths: 2300 -> "2.3", 23 -> "0.023" *)
FloatRepr(k) ==
    LET whole == k \div 1000
        frac  == k % 1000
        d1    == Digits[(frac \div 100) + 1]
        d2    == Digits[((frac \div 10) % 10) + 1]
        d3    == Digits[(frac % 10) + 1]
        fs    == IF frac % 100 = 0 THEN d1
                 ELSE IF frac % 10 = 0 THEN d1 \o d2
                 ELSE d1 \o d2 \o d3
    IN  Str(whole) \o "." \o fs

RECURSIVE SumSeq(_)
SumSeq(s) == IF s = <<>> THEN 0 ELSE Head(s) + SumSeq(Tail(s))

RECURSIVE SetSum(_, _)
(* Sum of f[i] over the indices i in S *)
SetSum(f, S) ==
    IF S = {} THEN 0
    ELSE LET i == CHOOSE x \in S : TRUE IN f[i] + SetSum(f, S \ {i})

Reverse(s) == [i \in 1..Len(s) |-> s[Len(s) + 1 - i]]

Column(df, c) == [i \in 1..Len(df.rows) |-> df.rows[i][c]]

RangeIndex(n) == [i \in 1..n |-> i - 1]

(* pd.DataFrame(list of dicts): columns are the keys, a fresh RangeIndex,  *)
(* the rows in the order given.  The constructor validates nothing.        *)
DataFrame(rows) ==
    [columns |-> UNION {DOMAIN rows[i] : i \in 1..Len(rows)},
     index   |-> RangeIndex(Len(rows)),
     rows    |-> rows]

(* Series.round(0).astype(int) of num/den: numpy rounds halves to even.    *)
RoundHalfEven(num, den) ==
    LET q == num \div den
        r == num % den
    IN  IF 2 * r < den THEN q
        ELSE IF 2 * r > den THEN q + 1
        ELSE IF q % 2 = 0 THEN q ELSE q + 1

(* Mutant: the .round(0) dropped, so astype(int) truncates. *)
SharePct_Trunc(n, total) == (100 * n) \div total

(* (N / total * 100).round(0).astype(int) for one row *)
SharePct(n, total) == RoundHalfEven(100 * n, total)

(* df['Pct'] = (df['N'] / df['N'].sum() * 100).round(0).astype(int):       *)
(* assignment into the frame itself, adding or overwriting column Pct.     *)
AssignPct(df) ==
    LET total_customers == SumSeq(Column(df, "N"))
    IN  [columns |-> df.columns \cup {"Pct"},
         index   |-> df.index,
         rows    |-> [i \in 1..Len(df.rows) |->
                        [c \in df.columns \cup {"Pct"} |->
                           IF c = "Pct"
                           THEN SharePct(df.rows[i]["N"], total_customers)
                           ELSE df.rows[i][c]]]]

(* Mutant: the [::-1] dropped, only the index is reset. *)
IlocReversed_NoReverse(df) ==
    [columns |-> df.columns,
     index   |-> RangeIndex(Len(df.rows)),
     rows    |-> df.rows]

(* df.iloc[::-1].reset_index(drop=True): a new frame, rows reversed, with  *)
(* a fresh RangeIndex.                                                     *)
IlocReversed(df) ==
    [columns |-> df.columns,
     index   |-> RangeIndex(Len(df.rows)),
     rows    |-> Reverse(df.rows)]

(* Positions 1..n of a sequence of numbers ordered by ascending key; equal *)
(* keys keep their relative order.                                         *)
RECURSIVE InsertAsc(_, _, _)
InsertAsc(order, p, key) ==
    IF order = <<>> THEN <<p>>
    ELSE IF key[p] < key[Head(order)] THEN <<p>> \o order
    ELSE <<Head(order)>> \o InsertAsc(Tail(order), p, key)

RECURSIVE ArgSortAsc(_, _)
ArgSortAsc(key, n) ==
    IF n = 0 THEN <<>> ELSE InsertAsc(ArgSortAsc(key, n - 1), n, key)

(* df.sort_values(col, ascending=True): a new frame; rows keep their index *)
(* labels.                                                                 *)
SortValues(df, col) ==
    LET order == ArgSortAsc(Column(df, col), Len(df.rows))
    IN  [columns |-> df.columns,
         index   |-> [i \in 1..Len(order) |-> df.index[order[i]]],
         rows    |-> [i \in 1..Len(order) |-> df.rows[order[i]]]]

-----------------------------------------------------------------------------
(* The hard-coded report data (module level, lines 32-100).                 *)

KpiData ==
    [avg_onboarding |-> 73, median_onboarding |-> 49, pct_under_20 |-> 29,
     pct_20_to_40 |-> 11, at_risk_customers |-> 72, at_risk_acv |-> 1300]

(* Mutant: 'Never Onboarded' entered under Live Status 'Live'. *)
SegmentationRows_NeverOnboardedLive == <<
    [Live_Status |-> "Live", Status |-> "Active", Category |-> "Live-Active", N |-> 96, ACV |-> 1700],
    [Live_Status |-> "Live", Status |-> "Churned", Category |-> "Live-Churned", N |-> 1, ACV |-> 20],
    [Live_Status |-> "Live", Status |-> "Active", Category |-> "Never Onboarded", N |-> 2, ACV |-> 20],
    [Live_Status |-> "Not Live", Status |-> "Active", Category |-> "On Hold", N |-> 90, ACV |-> 2300],
    [Live_Status |-> "Not Live", Status |-> "Active", Category |-> "At Risk", N |-> 72, ACV |-> 1300],
    [Live_Status |-> "Not Live", Status |-> "Active", Category |-> "Low Risk", N |-> 97, ACV |-> 3300],
    [Live_Status |-> "Not Live", Status |-> "Churned", Category |-> "Not Live-Churned", N |-> 11, ACV |-> 300] >>

SegmentationRows == <<
    [Live_Status |-> "Live", Status |-> "Active", Category |-> "Live-Active", N |-> 96, ACV |-> 1700],
    [Live_Status |-> "Live", Status |-> "Churned", Category |-> "Live-Churned", N |-> 1, ACV |-> 20],
    [Live_Status |-> "Not Live", Status |-> "Active", Category |-> "Never Onboarded", N |-> 2, ACV |-> 20],
    [Live_Status |-> "Not Live", Status |-> "Active", Category |-> "On Hold", N |-> 90, ACV |-> 2300],
    [Live_Status |-> "Not Live", Status |-> "Active", Category |-> "At Risk", N |-> 72, ACV |-> 1300],
    [Live_Status |-> "Not Live", Status |-> "Active", Category |-> "Low Risk", N |-> 97, ACV |-> 3300],
    [Live_Status |-> "Not Live", Status |-> "Churned", Category |-> "Not Live-Churned", N |-> 11, ACV |-> 300] >>

ErpRows == <<
    [ERP |-> "mb (MYOB)", N |-> 45, Average |-> 79, Median |-> 43],
    [ERP |-> "so (Syspro)", N |-> 23, Average |-> 96, Median |-> 75],
    [ERP |-> "at (Acumatica)", N |-> 11, Average |-> 19, Median |-> 10],
    [ERP |-> "xo (Xero)", N |-> 6, Average |-> 29, Median |-> 29],
    [ERP |-> "eo", N |-> 5, Average |-> 60, Median |-> 48] >>

CohortRows == <<
    [Month |-> "Oct-24", Avg_Days |-> 65],
    [Month |-> "Nov-24", Avg_Days |-> 68],
    [Month |-> "Dec-24", Avg_Days |-> 74],
    [Month |-> "Jan-25", Avg_Days |-> 88] >>

(* Mutant: the Pct of bin 40-60 entered as its Count. *)
DistributionRows_PctIsCount == <<
    [Bin |-> "0-20", Count |-> 28, Pct |-> 29],
    [Bin |-> "20-40", Count |-> 10, Pct |-> 11],
    [Bin |-> "40-60", Count |-> 15, Pct |-> 15],
    [Bin |-> "60-80", Count |-> 8, Pct |-> 8],
    [Bin |-> "80-100", Count |-> 6, Pct |-> 6],
    [Bin |-> "100+", Count |-> 28, Pct |-> 29] >>

DistributionRows == <<
    [Bin |-> "0-20", Count |-> 28, Pct |-> 29],
    [Bin |-> "20-40", Count |-> 10, Pct |-> 11],
    [Bin |-> "40-60", Count |-> 15, Pct |-> 16],
    [Bin |-> "60-80", Count |-> 8, Pct |-> 8],
    [Bin |-> "80-100", Count |-> 6, Pct |-> 6],
    [Bin |-> "100+", Count |-> 28, Pct |-> 29] >>

AcvOnboardingRows == <<
    [ACV_Band |-> "<$5K", Avg_Days |-> 42, N |-> 11, Avg_ACV |-> 3864],
    [ACV_Band |-> "$5K-$10K", Avg_Days |-> 62, N |-> 21, Avg_ACV |-> 6911],
    [ACV_Band |-> "$10K-$25K", Avg_Days |-> 68, N |-> 44, Avg_ACV |-> 15294],
    [ACV_Band |-> "$25K-$50K", Avg_Days |-> 115, N |-> 14, Avg_ACV |-> 36667],
    [ACV_Band |-> "$50K+", Avg_Days |-> 116, N |-> 5, Avg_ACV |-> 69058] >>

NonLiveRows == <<
    [Category |-> "Never Onboarded", ACV |-> 23, N |-> 2],
    [Category |-> "On Hold", ACV |-> 2300, N |-> 90],
    [Category |-> "At Risk", ACV |-> 1300, N |-> 72],
    [Category |-> "Low Risk", ACV |-> 3300, N |-> 97] >>

AtRiskRows == <<
    [Reason |-> "No incoming comms", Count |-> 54],
    [Reason |-> "Low response / other risk", Count |-> 18] >>

-----------------------------------------------------------------------------
(* View data of each chart builder: the traces handed to the chart library. *)

COLORS ==
    [blue |-> "#1f77b4", orange |-> "#ff7f0e", gray |-> "#7f7f7f",
     green |-> "#2ca02c", red |-> "#d62728", light_blue |-> "#aec7e8",
     light_orange |-> "#ffbb78", purple |-> "#9467bd", teal |-> "#17becf"]

Indicators == <<
    [value |-> 73, title |-> "Avg Onboarding", suffix |-> " days"],
    [value |-> 49, title |-> "Median Onboarding", suffix |-> " days"],
    [value |-> 29, title |-> "% Onboarded <20 Days", suffix |-> "%"],
    [value |-> 11, title |-> "% Onboarded 20-40 Days", suffix |-> "%"],
    [value |-> 72, title |-> "At Risk Customers", suffix |-> " ($1.3M)"] >>

KpiFig ==
    [i \in 1..Len(Indicators) |->
        [type |-> "indicator", value |-> Indicators[i].value,
         title |-> Indicators[i].title, suffix |-> Indicators[i].suffix]]

(* Mutant: 'Live-Churned' listed before 'Live-Active'. *)
TreemapLabels_Swapped == <<
    "All Customers",
    "Live (N=97, $1.7M)", "Not Live (N=272, $7.3M)",
    "Live-Churned (N=1)", "Live-Active (N=96)",
    "Not Live-Active (N=261)", "Not Live-Churned (N=11)",
    "Never Onboarded (N=2)", "On Hold (N=90)", "At Risk (N=72)", "Low Risk (N=97)" >>

TreemapLabels == <<
    "All Customers",
    "Live (N=97, $1.7M)", "Not Live (N=272, $7.3M)",
    "Live-Active (N=96)", "Live-Churned (N=1)",
    "Not Live-Active (N=261)", "Not Live-Churned (N=11)",
    "Never Onboarded (N=2)", "On Hold (N=90)", "At Risk (N=72)", "Low Risk (N=97)" >>

TreemapParents == <<
    "",
    "All Customers", "All Customers",
    "Live (N=97, $1.7M)", "Live (N=97, $1.7M)",
    "Not Live (N=272, $7.3M)", "Not Live (N=272, $7.3M)",
    "Not Live-Active (N=261)", "Not Live-Active (N=261)", "Not Live-Active (N=261)", "Not Live-Active (N=261)" >>

(* [9.0, 1.72, 7.28, 1.7, 0.02, 6.98, 0.3, 0.02, 2.3, 1.3, 3.3] *)
TreemapValues == <<9000, 1720, 7280, 1700, 20, 6980, 300, 20, 2300, 1300, 3300>>

SegmentationFig ==
    << [type |-> "treemap", labels |-> TreemapLabels,
        parents |-> TreemapParents, values |-> TreemapValues] >>

ErpFig(erp) ==
    LET erp_reversed == IlocReversed(erp)
        erp_labels   == [i \in 1..Len(erp_reversed.rows) |->
                            erp_reversed.rows[i].ERP \o " N=" \o Str(erp_reversed.rows[i].N)]
    IN  << [type |-> "bar", name |-> "Average", y |-> erp_labels,
            x |-> Column(erp_reversed, "Average"),
            text |-> Column(erp_reversed, "Average")],
           [type |-> "scatter", name |-> "Median", y |-> erp_labels,
            x |-> Column(erp_reversed, "Median")] >>

CohortFig(cohort) ==
    << [type |-> "scatter", x |-> Column(cohort, "Month"),
        y |-> Column(cohort, "Avg_Days"), text |-> Column(cohort, "Avg_Days")] >>

BinColor(b) ==
    IF b \in {"0-20", "20-40"} THEN COLORS.green
    ELSE IF b = "100+" THEN COLORS.red ELSE COLORS.blue

DistributionFig(dist) ==
    << [type |-> "bar", x |-> Column(dist, "Bin"), y |-> Column(dist, "Pct"),
        marker_color |-> [i \in 1..Len(dist.rows) |-> BinColor(dist.rows[i].Bin)],
        text |-> [i \in 1..Len(dist.rows) |-> Str(dist.rows[i].Pct) \o "%"]] >>

(* The bar trace of create_acv_chart, read from the frame after the Pct    *)
(* assignment.                                                             *)
AcvFig(acv) ==
    << [type |-> "bar", x |-> Column(acv, "ACV_Band"), y |-> Column(acv, "Pct"),
        text |-> [i \in 1..Len(acv.rows) |->
                    Str(acv.rows[i]["Pct"]) \o "%<br>(" \o Str(acv.rows[i]["Avg_Days"]) \o " days)"],
        customdata |-> [i \in 1..Len(acv.rows) |->
                          <<acv.rows[i]["N"], acv.rows[i]["Avg_Days"]>>]] >>

colors_map ==
    [c \in {"Never Onboarded", "On Hold", "At Risk", "Low Risk"} |->
        IF c = "At Risk" THEN COLORS.orange
        ELSE IF c = "Low Risk" THEN COLORS.green ELSE COLORS.gray]

NonLiveFig(nl) ==
    LET df_sorted == SortValues(nl, "ACV")
    IN  << [type |-> "bar",
            y |-> [i \in 1..Len(df_sorted.rows) |->
                     df_sorted.rows[i].Category \o " (N=" \o Str(df_sorted.rows[i].N) \o ")"],
            x |-> Column(df_sorted, "ACV"),
            marker_color |-> [i \in 1..Len(df_sorted.rows) |->
                                colors_map[df_sorted.rows[i].Category]],
            text |-> [i \in 1..Len(df_sorted.rows) |->
                        "$" \o FloatRepr(df_sorted.rows[i].ACV) \o "M"]] >>

AtRiskFig ==
    << [type |-> "bar", name |-> "No incoming comms", y |-> <<"At Risk (N=72)">>,
        x |-> <<54>>, text |-> <<"54 (75%)">>],
       [type |-> "bar", name |-> "Low response / other", y |-> <<"At Risk (N=72)">>,
        x |-> <<18>>, text |-> <<"18 (25%)">>] >>

-----------------------------------------------------------------------------
(* State machine: the module-level tables and calls of the chart builders. *)
(* The layout expression of the module (lines 424-522) calls each builder  *)
(* once, in source order; any other caller may call them in any order.     *)

Builders ==
    {"create_kpi_cards", "create_segmentation_chart", "create_erp_chart",
     "create_cohort_trend", "create_distribution_chart", "create_acv_chart",
     "create_non_live_chart", "create_at_risk_breakdown"}

Init ==
    /\ source_rows = SegmentationRows
    /\ loaded = TRUE
    /\ raised = "none"
    /\ kpi_data = KpiData
    /\ segmentation_data = DataFrame(source_rows)
    /\ erp_data = DataFrame(ErpRows)
    /\ cohort_data = DataFrame(CohortRows)
    /\ distribution_data = DataFrame(DistributionRows)
    /\ acv_onboarding_data = DataFrame(AcvOnboardingRows)
    /\ non_live_data = DataFrame(NonLiveRows)
    /\ at_risk_breakdown = DataFrame(AtRiskRows)
    /\ figs = [b \in Builders |-> <<>>]
    /\ calls = [b \in Builders |-> 0]

(* Number of builder calls made so far *)
TotalCalls == SetSum(calls, Builders)

(* Bookkeeping of one builder call returning fig; the model stops after    *)
(* MaxCalls calls in all.                                                  *)
Returns(b, fig) ==
    /\ loaded
    /\ TotalCalls < MaxCalls
    /\ figs' = [figs EXCEPT ![b] = fig]
    /\ calls' = [calls EXCEPT ![b] = @ + 1]
    /\ raised' = "none"
    /\ UNCHANGED <<source_rows, loaded>>

create_kpi_cards ==
    /\ Returns("create_kpi_cards", KpiFig)
    /\ UNCHANGED tables

create_segmentation_chart ==
    /\ Returns("create_segmentation_chart", SegmentationFig)
    /\ UNCHANGED tables

(* Mutant: the reversal applied to the module-level frame itself. *)
create_erp_chart_InPlace ==
    /\ Returns("create_erp_chart", ErpFig(erp_data))
    /\ erp_data' = IlocReversed(erp_data)
    /\ UNCHANGED <<kpi_data, segmentation_data, cohort_data, distribution_data,
                   acv_onboarding_data, non_live_data, at_risk_breakdown>>

create_erp_chart ==
    /\ Returns("create_erp_chart", ErpFig(erp_data))
    /\ UNCHANGED tables

create_cohort_trend ==
    /\ Returns("create_cohort_trend", CohortFig(cohort_data))
    /\ UNCHANGED tables

create_distribution_chart ==
    /\ Returns("create_distribution_chart", DistributionFig(distribution_data))
    /\ UNCHANGED tables

create_acv_chart ==
    /\ acv_onboarding_data' = AssignPct(acv_onboarding_data)
    /\ Returns("create_acv_chart", AcvFig(acv_onboarding_data'))
    /\ UNCHANGED <<kpi_data, segmentation_data, erp_data, cohort_data,
                   distribution_data, non_live_data, at_risk_breakdown>>

create_non_live_chart ==
    /\ Returns("create_non_live_chart", NonLiveFig(non_live_data))
    /\ UNCHANGED tables

create_at_risk_breakdown ==
    /\ Returns("create_at_risk_breakdown", AtRiskFig)
    /\ UNCHANGED tables

Next ==
    \/ create_kpi_cards
    \/ create_segmentation_chart
    \/ create_erp_chart
    \/ create_cohort_trend
    \/ create_distribution_chart
    \/ create_acv_chart
    \/ create_non_live_chart
    \/ create_at_risk_breakdown

Spec == Init /\ [][Next]_vars

-----------------------------------------------------------------------------
(* Construction of a table from an arbitrary list of rows: the statement   *)
(* segmentation_data = pd.DataFrame([...]) with the list as the input.     *)

CandidateCategories == {"At Risk", "On Hold"}

CandidateCounts == {0, 1}

CandidateRow ==
    [Live_Status : {"Not Live"}, Status : {"Active"},
     Category : CandidateCategories, N : CandidateCounts, ACV : {0}]

CandidateRowLists ==
    UNION {[1..n -> CandidateRow] : n \in 0..MaxRows}

InitDataFrame ==
    /\ source_rows \in CandidateRowLists
    /\ loaded = FALSE
    /\ raised = "none"
    /\ kpi_data = KpiData
    /\ segmentation_data = DataFrame(<<>>)
    /\ erp_data = DataFrame(ErpRows)
    /\ cohort_data = DataFrame(CohortRows)
    /\ distribution_data = DataFrame(DistributionRows)
    /\ acv_onboarding_data = DataFrame(AcvOnboardingRows)
    /\ non_live_data = DataFrame(NonLiveRows)
    /\ at_risk_breakdown = DataFrame(AtRiskRows)
    /\ figs = [b \in Builders |-> <<>>]
    /\ calls = [b \in Builders |-> 0]

(* pd.DataFrame(rows) returns the frame; it raises for no list of dicts.   *)
ConstructSegmentation ==
    /\ ~loaded
    /\ segmentation_data' = DataFrame(source_rows)
    /\ loaded' = TRUE
    /\ raised' = "none"
    /\ UNCHANGED <<kpi_data, erp_data, cohort_data, distribution_data,
                   acv_onboarding_data, non_live_data, at_risk_breakdown,
                   figs, calls, source_rows>>

NextDataFrame == ConstructSegmentation

SpecDataFrame == InitDataFrame /\ [][NextDataFrame]_vars

-----------------------------------------------------------------------------
(* Vocabulary of the properties.                                           *)

SetMin(S) == CHOOSE x \in S : \A y \in S : x <= y

SetMax(S) == CHOOSE x \in S : \A y \in S : x >= y

Abs(x) == IF x < 0 THEN -x ELSE x

Built(b) == calls[b] > 0

(* The treemap trace returned by create_segmentation_chart *)
Treemap == figs["create_segmentation_chart"][1]

Nodes(t) == 1..Len(t.labels)

Children(t, i) == {j \in Nodes(t) : t.parents[j] = t.labels[i]}

Leaves(t) == {i \in Nodes(t) : Children(t, i) = {}}

Roots(t) == {i \in Nodes(t) : t.parents[i] = ""}

Siblings(t) ==
    {p \in Nodes(t) \X Nodes(t) : p[1] < p[2] /\ t.parents[p[1]] = t.parents[p[2]]}

RECURSIVE Subtree(_, _)
Subtree(t, i) == {i} \cup UNION {Subtree(t, j) : j \in Children(t, i)}

(* The label a segmentation row carries as a treemap leaf *)
LeafLabel(row) == row.Category \o " (N=" \o Str(row.N) \o ")"

(* The positions of the segmentation_data rows that lie under node i *)
CoveredRows(t, i) ==
    LET under == {t.labels[j] : j \in Subtree(t, i)}
    IN  {r \in 1..Len(segmentation_data.rows) :
            LeafLabel(segmentation_data.rows[r]) \in under}

(* p is an integer nearest to 100 * n / total *)
Nearest(p, n, total) == 2 * Abs(100 * n - p * total) <= total

(* The percentages p for which a trace's text reads "<count> (<p>%)" *)
TextPct(tr) ==
    {p \in 0..100 : tr.text[1] = Str(tr.x[1]) \o " (" \o Str(p) \o "%)"}

AtRiskPcts ==
    [i \in 1..Len(figs["create_at_risk_breakdown"]) |->
        CHOOSE p \in TextPct(figs["create_at_risk_breakdown"][i]) : TRUE]

(* Stable sort of rows by a numeric field, descending *)
RECURSIVE InsertDesc(_, _, _)
InsertDesc(sorted, row, field) ==
    IF sorted = <<>> THEN <<row>>
    ELSE IF row[field] > Head(sorted)[field] THEN <<row>> \o sorted
    ELSE <<Head(sorted)>> \o InsertDesc(Tail(sorted), row, field)

RECURSIVE RankPrefix(_, _, _)
RankPrefix(rows, field, n) ==
    IF n = 0 THEN <<>>
    ELSE InsertDesc(RankPrefix(rows, field, n - 1), rows[n], field)

rankDescending(rows, field) == RankPrefix(rows, field, Len(rows))

ErpLabel(row) == row.ERP \o " N=" \o Str(row.N)

(* What a bar list with y sequence y shows from top to bottom *)
TopToBottom(y) == Reverse(y)

NotLive(df) == SelectSeq(df.rows, LAMBDA r : r.Live_Status = "Not Live")

UniqueKey(df, key) ==
    \A i, j \in 1..Len(df.rows) : i # j => df.rows[i][key] # df.rows[j][key]

NonNegative(df, cols) ==
    \A i \in 1..Len(df.rows) : \A c \in cols : df.rows[i][c] >= 0

(* What the first call of builder b returns on the freshly built tables *)
FirstCall(b) ==
    CASE b = "create_kpi_cards" -> KpiFig
      [] b = "create_segmentation_chart" -> SegmentationFig
      [] b = "create_erp_chart" -> ErpFig(DataFrame(ErpRows))
      [] b = "create_cohort_trend" -> CohortFig(DataFrame(CohortRows))
      [] b = "create_distribution_chart" -> DistributionFig(DataFrame(DistributionRows))
      [] b = "create_acv_chart" -> AcvFig(AssignPct(DataFrame(AcvOnboardingRows)))
      [] b = "create_non_live_chart" -> NonLiveFig(DataFrame(NonLiveRows))
      [] b = "create_at_risk_breakdown" -> AtRiskFig

-----------------------------------------------------------------------------
(* C1: in the treemap returned by create_segmentation_chart, the values of *)
(* the leaf nodes sum to the value of the root 'All Customers'.  The code  *)
(* gives leaves summing to 8.94 under a root of 9.0.                       *)
C1_LeafSumEqualsRoot ==
    Built("create_segmentation_chart") =>
        \A r \in Roots(Treemap) :
            SetSum(Treemap.values, Leaves(Treemap)) = Treemap.values[r]

(* C8: every treemap node that has children carries the sum of the values  *)
(* of its direct children.  'Not Live-Active' carries 6.98 over children   *)
(* summing to 6.92.                                                        *)
C8_ParentIsSumOfChildren ==
    Built("create_segmentation_chart") =>
        \A i \in Nodes(Treemap) \ Leaves(Treemap) :
            Treemap.values[i] = SetSum(Treemap.values, Children(Treemap, i))

(* C9 as stated: the children of every treemap parent are listed in        *)
(* descending order of value.                                              *)
C9_ChildrenDescending ==
    Built("create_segmentation_chart") =>
        \A p \in Siblings(Treemap) : Treemap.values[p[1]] >= Treemap.values[p[2]]

(* C9 amended: the children of every treemap parent are listed in the      *)
(* order of the segmentation_data rows they cover (all rows of an earlier  *)
(* child precede all rows of a later one); they are in descending order of *)
(* value under the parents 'Live' and 'Not Live'.                          *)
C9_ChildrenInRowOrder ==
    Built("create_segmentation_chart") =>
        \A p \in Siblings(Treemap) :
            /\ CoveredRows(Treemap, p[1]) # {}
            /\ CoveredRows(Treemap, p[2]) # {}
            /\ SetMax(CoveredRows(Treemap, p[1])) < SetMin(CoveredRows(Treemap, p[2]))
            /\ Treemap.parents[p[1]] \in {"Live (N=97, $1.7M)", "Not Live (N=272, $7.3M)"}
                  => Treemap.values[p[1]] >= Treemap.values[p[2]]

(* C9 witness: the treemap is built and some parent lists a smaller child  *)
(* before a larger one.                                                    *)
C9_Witness ==
    /\ Built("create_segmentation_chart")
    /\ \E p \in Siblings(Treemap) : Treemap.values[p[1]] < Treemap.values[p[2]]

(* C2: in every table with a percentage column the percentages sum to a   *)
(* value in 99..101: the stored Pct of distribution_data, the Pct that     *)
(* create_acv_chart computes, the split shown by create_at_risk_breakdown. *)
C2_PctSumsTo100 ==
    /\ SumSeq(Column(distribution_data, "Pct")) \in 99..101
    /\ "Pct" \in acv_onboarding_data.columns
          => SumSeq(Column(acv_onboarding_data, "Pct")) \in 99..101
    /\ Built("create_acv_chart")
          => SumSeq(figs["create_acv_chart"][1].y) \in 99..101
    /\ Built("create_at_risk_breakdown")
          => /\ \A i \in 1..Len(figs["create_at_risk_breakdown"]) :
                    Cardinality(TextPct(figs["create_at_risk_breakdown"][i])) = 1
             /\ SumSeq(AtRiskPcts) \in 99..101

(* C2 witness: all three percentage columns exist.                         *)
C2_Witness ==
    /\ Built("create_acv_chart")
    /\ "Pct" \in acv_onboarding_data.columns
    /\ Built("create_at_risk_breakdown")
    /\ Built("create_distribution_chart")

(* C3 as stated: the 'Not Live' rows of segmentation_data total 270 and    *)
(* 'At Risk' (N=72) gets the share 27.                                     *)
C3_NotLiveTotal270 ==
    LET sub   == NotLive(segmentation_data)
        total == SumSeq([i \in 1..Len(sub) |-> sub[i].N])
    IN  /\ total = 270
        /\ \A i \in 1..Len(sub) :
              sub[i].Category = "At Risk" => SharePct(sub[i].N, total) = 27

(* C3 amended: the 'Not Live' rows are the five rows with counts           *)
(* 2, 90, 72, 97, 11, they total 272, and 'At Risk' (N=72) gets the share  *)
(* round(100*72/272) = 26.                                                 *)
C3_NotLiveTotal272 ==
    LET sub   == NotLive(segmentation_data)
        total == SumSeq([i \in 1..Len(sub) |-> sub[i].N])
    IN  /\ [i \in 1..Len(sub) |-> sub[i].N] = <<2, 90, 72, 97, 11>>
        /\ total = 272
        /\ \E i \in 1..Len(sub) : sub[i].Category = "At Risk" /\ sub[i].N = 72
        /\ \A i \in 1..Len(sub) :
              sub[i].Category = "At Risk" =>
                  /\ SharePct(sub[i].N, total) = 26
                  /\ Nearest(26, sub[i].N, total)

(* C3 witness: the seven rows carry the counts of the claim, 'At Risk' and *)
(* 'Never Onboarded' are both 'Not Live', and the treemap built from them  *)
(* shows the 'Not Live' node with N=272.                                   *)
C3_Witness ==
    /\ Column(segmentation_data, "N") = <<96, 1, 2, 90, 72, 97, 11>>
    /\ \E i, j \in 1..Len(NotLive(segmentation_data)) :
          /\ NotLive(segmentation_data)[i].Category = "At Risk"
          /\ NotLive(segmentation_data)[j].Category = "Never Onboarded"
    /\ Built("create_segmentation_chart")
    /\ \E i \in Nodes(Treemap) : Treemap.labels[i] = "Not Live (N=272, $7.3M)"

(* C4 as stated: create_erp_chart shows the ERP rows from top to bottom in *)
(* descending order of Average.                                            *)
C4_ShownByAverage ==
    Built("create_erp_chart") =>
        LET ranked == rankDescending(erp_data.rows, "Average")
        IN  TopToBottom(figs["create_erp_chart"][1].y)
               = [i \in 1..Len(ranked) |-> ErpLabel(ranked[i])]

(* C4 amended: ranking erp_data by Average, descending, gives              *)
(* [so, mb, eo, xo, at]; create_erp_chart shows the ERP rows from top to   *)
(* bottom in the order of the table itself, [mb, so, at, xo, eo] (the y    *)
(* sequence of both traces is the table's rows reversed).                  *)
C4_ShownInTableOrder ==
    /\ LET ranked == rankDescending(erp_data.rows, "Average")
       IN  [i \in 1..Len(ranked) |-> ranked[i].ERP]
              = <<"so (Syspro)", "mb (MYOB)", "eo", "xo (Xero)", "at (Acumatica)">>
    /\ Built("create_erp_chart") =>
          \A k \in 1..Len(figs["create_erp_chart"]) :
             /\ TopToBottom(figs["create_erp_chart"][k].y)
                   = [i \in 1..Len(erp_data.rows) |-> ErpLabel(erp_data.rows[i])]
             /\ TopToBottom(figs["create_erp_chart"][k].y)
                   = <<"mb (MYOB) N=45", "so (Syspro) N=23", "at (Acumatica) N=11",
                       "xo (Xero) N=6", "eo N=5">>

(* C4 witness: the ERP view is built and its top row is not the row of the *)
(* largest Average.                                                        *)
C4_Witness ==
    /\ Built("create_erp_chart")
    /\ TopToBottom(figs["create_erp_chart"][1].y)[1]
          # ErpLabel(rankDescending(erp_data.rows, "Average")[1])

(* C5: every percentage is 100 * count / (sum of the table's counts)       *)
(* rounded to the nearest integer: the Pct create_acv_chart computes from  *)
(* N, the stored Pct of distribution_data against Count, the percentage    *)
(* in each text of create_at_risk_breakdown against at_risk_breakdown.     *)
C5_PctIsRoundedShare ==
    /\ "Pct" \in acv_onboarding_data.columns =>
          \A i \in 1..Len(acv_onboarding_data.rows) :
             Nearest(acv_onboarding_data.rows[i]["Pct"],
                     acv_onboarding_data.rows[i]["N"],
                     SumSeq(Column(acv_onboarding_data, "N")))
    /\ Built("create_acv_chart") =>
          \A i \in 1..Len(acv_onboarding_data.rows) :
             Nearest(figs["create_acv_chart"][1].y[i],
                     acv_onboarding_data.rows[i]["N"],
                     SumSeq(Column(acv_onboarding_data, "N")))
    /\ \A i \in 1..Len(distribution_data.rows) :
          Nearest(distribution_data.rows[i].Pct, distribution_data.rows[i].Count,
                  SumSeq(Column(distribution_data, "Count")))
    /\ Built("create_at_risk_breakdown") =>
          /\ Len(figs["create_at_risk_breakdown"]) = Len(at_risk_breakdown.rows)
          /\ \A i \in 1..Len(at_risk_breakdown.rows) :
                /\ figs["create_at_risk_breakdown"][i].x[1] = at_risk_breakdown.rows[i].Count
                /\ TextPct(figs["create_at_risk_breakdown"][i]) # {}
                /\ \A p \in TextPct(figs["create_at_risk_breakdown"][i]) :
                      Nearest(p, at_risk_breakdown.rows[i].Count,
                              SumSeq(Column(at_risk_breakdown, "Count")))

(* C5 witness: create_acv_chart has computed a Pct that differs from the   *)
(* truncated share (rounding went up), and the at-risk texts are built.    *)
C5_Witness ==
    /\ Built("create_acv_chart")
    /\ Built("create_at_risk_breakdown")
    /\ "Pct" \in acv_onboarding_data.columns
    /\ \E i \in 1..Len(acv_onboarding_data.rows) :
          acv_onboarding_data.rows[i]["Pct"] * SumSeq(Column(acv_onboarding_data, "N"))
             > 100 * acv_onboarding_data.rows[i]["N"]

(* C6: after any sequence of builder calls every module-level table has    *)
(* the columns, rows, row order and values it was constructed with.        *)
(* create_acv_chart adds the column Pct to acv_onboarding_data.            *)
C6_TablesAsConstructed ==
    /\ kpi_data = KpiData
    /\ segmentation_data = DataFrame(SegmentationRows)
    /\ erp_data = DataFrame(ErpRows)
    /\ cohort_data = DataFrame(CohortRows)
    /\ distribution_data = DataFrame(DistributionRows)
    /\ acv_onboarding_data = DataFrame(AcvOnboardingRows)
    /\ non_live_data = DataFrame(NonLiveRows)
    /\ at_risk_breakdown = DataFrame(AtRiskRows)

(* C7: every call of a builder returns the view data its first call        *)
(* returns on the freshly constructed tables, whatever was called before.  *)
C7_SameViewEveryCall ==
    \A b \in Builders : Built(b) => figs[b] = FirstCall(b)

(* C7 witness: builders that read tables have been called repeatedly, in   *)
(* a state where create_acv_chart has already changed its table.           *)
C7_Witness ==
    /\ calls["create_acv_chart"] >= 2
    /\ calls["create_erp_chart"] >= 2
    /\ calls["create_non_live_chart"] >= 2
    /\ acv_onboarding_data # DataFrame(AcvOnboardingRows)

(* C10: in every table the key label is unique and every count and         *)
(* monetary value is non-negative, and a table constructed from rows that  *)
(* share a category label is rejected with DataIntegrityError.  The        *)
(* constructor accepts such rows.                                          *)
C10_UniqueKeysOrRejected ==
    /\ (loaded /\ raised = "none") =>
          /\ UniqueKey(segmentation_data, "Category")
          /\ UniqueKey(non_live_data, "Category")
          /\ UniqueKey(erp_data, "ERP")
          /\ UniqueKey(cohort_data, "Month")
          /\ UniqueKey(distribution_data, "Bin")
          /\ UniqueKey(acv_onboarding_data, "ACV_Band")
          /\ UniqueKey(at_risk_breakdown, "Reason")
          /\ NonNegative(segmentation_data, {"N", "ACV"})
          /\ NonNegative(non_live_data, {"N", "ACV"})
          /\ NonNegative(erp_data, {"N", "Average", "Median"})
          /\ NonNegative(cohort_data, {"Avg_Days"})
          /\ NonNegative(distribution_data, {"Count", "Pct"})
          /\ NonNegative(acv_onboarding_data, {"N", "Avg_Days", "Avg_ACV"})
          /\ NonNegative(at_risk_breakdown, {"Count"})
    /\ (loaded /\ \E i, j \in 1..Len(source_rows) :
                     i # j /\ source_rows[i].Category = source_rows[j].Category)
          => raised = "DataIntegrityError"

-----------------------------------------------------------------------------
(* The hierarchy the flat segmentation rows imply.                         *)

RowSet(df) == 1..Len(df.rows)

(* The groups of segmentation_data rows a treemap node can stand for: all  *)
(* rows, the rows of one Live Status, the rows of one Live Status and      *)
(* Status, and the single row of one Category.                             *)
AllGroup(df) == [key |-> "All Customers", rows |-> RowSet(df), kind |-> "all"]

LiveStatusGroups(df) ==
    {[key  |-> df.rows[r].Live_Status,
      rows |-> {q \in RowSet(df) : df.rows[q].Live_Status = df.rows[r].Live_Status},
      kind |-> "aggregate"] : r \in RowSet(df)}

StatusGroups(df) ==
    {[key  |-> df.rows[r].Live_Status \o "-" \o df.rows[r].Status,
      rows |-> {q \in RowSet(df) : /\ df.rows[q].Live_Status = df.rows[r].Live_Status
                                   /\ df.rows[q].Status = df.rows[r].Status},
      kind |-> "aggregate"] : r \in RowSet(df)}

CategoryGroups(df) ==
    {[key |-> df.rows[r].Category, rows |-> {r}, kind |-> "leaf"] : r \in RowSet(df)}

GroupN(df, g) == SetSum(Column(df, "N"), g.rows)

GroupACV(df, g) == SetSum(Column(df, "ACV"), g.rows)

(* The amounts a label may show after its count: "$0.0M" .. "$10.0M"       *)
LabelAmounts == {"$" \o FloatRepr(100 * d) \o "M" : d \in 0..100}

(* label names the group key with the count n: "key (N=n)" or              *)
(* "key (N=n, $x.yM)"                                                      *)
LabelCarries(label, key, n) ==
    \/ label = key \o " (N=" \o Str(n) \o ")"
    \/ \E a \in LabelAmounts : label = key \o " (N=" \o Str(n) \o ", " \o a \o ")"

(* Node i of treemap t stands for group g of df: it is labelled with the   *)
(* group's key and count (the root with the key alone) and the rows under  *)
(* it in the tree are the group's rows.                                    *)
StandsFor(t, i, df, g) ==
    /\ IF g.kind = "all" THEN t.labels[i] = g.key
       ELSE LabelCarries(t.labels[i], g.key, GroupN(df, g))
    /\ CoveredRows(t, i) = g.rows

(* C11: the treemap is the hierarchy reconstructed from segmentation_data: *)
(* every leaf stands for the row of its Category and carries that row's N  *)
(* and ACV, every aggregate node stands for the rows of its Live Status    *)
(* (and Status), or for all rows, and carries the sum of their N and the   *)
(* sum of their ACV.  'Not Live-Active', 'Not Live' and 'All Customers'    *)
(* carry 0.06 more than the ACV of their rows.                             *)
C11_TreemapIsRowHierarchy ==
    Built("create_segmentation_chart") =>
        \A i \in Nodes(Treemap) :
            \E g \in IF i \in Leaves(Treemap)
                     THEN CategoryGroups(segmentation_data)
                     ELSE {AllGroup(segmentation_data)}
                            \cup LiveStatusGroups(segmentation_data)
                            \cup StatusGroups(segmentation_data) :
                /\ StandsFor(Treemap, i, segmentation_data, g)
                /\ Treemap.values[i] = GroupACV(segmentation_data, g)

====
